---- MODULE Spec2Model ----
(***************************************************************************)
(* Game-room state machine of the Ludo server (src/server.js): the room    *)
(* registry, the session map, the GameRoom rules engine and the socket     *)
(* event handlers, each handler one atomic action (single-threaded event   *)
(* loop).                                                                  *)
(***************************************************************************)
EXTENDS Integers, Sequences, FiniteSets, TLC

\* ------------------------------------------------------------------ bounds
NumSockets == 2
MaxMoves == 1
MaxTimers == 1
MaxSeats == 1
LobbySeats == 3

\* --------------------------------------------------------- program constants
Sockets == 1..NumSockets
RoomCodes == {"A"}
\* a room code that no createRoom ever names
UnusedCode == "Z"
Colors == {"red", "green", "blue", "yellow"}
TokenIds == 0..3
DiceValues == 1..6
\* rollDice branches only on diceValue === 6 and stores the value: a six and
\* one other value stand for the six faces
RollValues == {5, 6}
HomePos == 57
HomeStretchFirst == 52
MaxPlayers == 4
SixLimit == 3
TokenAtHome == -1
\* consecutiveSixes[color] before addPlayer(color): undefined, and NaN once
\* incremented; both compare false with >= 3 and are kept as one value.
NoCount == -1

STAR_POSITIONS == {0, 8, 13, 21, 26, 34, 39, 47}
StartAtZero == [c \in Colors |-> 0]
START_POSITIONS == [c \in Colors |->
    CASE c = "red" -> 0 [] c = "green" -> 13 [] c = "yellow" -> 26 [] OTHER -> 39]

\* order of getNextPlayer, of joinRoom's colour search, of the checkKill and
\* checkWinner loops
TurnOrder == <<"red", "green", "yellow", "blue">>
JoinOrder == <<"red", "green", "blue", "yellow">>
ScanOrder == <<"red", "green", "blue", "yellow">>

NoKill == [color |-> "none", tokenIndex |-> -1]

\* ------------------------------------------------------------ GameRoom class
NewColorState == [tokens |-> [t \in TokenIds |-> TokenAtHome], score |-> 0,
                  kills |-> 0, finished |-> <<>>]

NewGameRoom(roomCode, gameMode) ==
    [roomCode |-> roomCode, gameMode |-> gameMode, players |-> <<>>,
     currentPlayer |-> "red", gameStarted |-> FALSE,
     consecutiveSixes |-> [c \in Colors |-> NoCount], lastDiceRoll |-> 0,
     gameState |-> [c \in Colors |-> NewColorState]]

SeqToSet(s) == {s[i] : i \in 1..Len(s)}
ActiveColorsNone(room) == {}
ActiveColors(room) == {room.players[i].color : i \in 1..Len(room.players)}
IndexOf(s, x) == CHOOSE i \in 1..Len(s) : s[i] = x
MinOf(S) == CHOOSE x \in S : \A y \in S : x <= y

AddPlayer(room, socketId, color) ==
    IF Len(room.players) < MaxPlayers /\ color \notin ActiveColors(room)
    THEN [room EXCEPT !.players = Append(@, [socketId |-> socketId, color |-> color]),
                      !.consecutiveSixes[color] = 0]
    ELSE room

IsNot(socketId, p) == p.socketId # socketId
RemovePlayer(room, socketId) ==
    [room EXCEPT !.players = SelectSeq(@, LAMBDA p : IsNot(socketId, p))]

\* the loop of getNextPlayer, i running from `first` to 4
NextPlayerFrom(room, current, first) ==
    LET currentIndex == IndexOf(TurnOrder, current) - 1
        hits == {i \in first..4 : TurnOrder[((currentIndex + i) % 4) + 1] \in ActiveColors(room)}
    IN IF hits = {} THEN current
       ELSE TurnOrder[((currentIndex + MinOf(hits)) % 4) + 1]

GetNextPlayerFromZero(room, current) == NextPlayerFrom(room, current, 0)
GetNextPlayerAnyColor(room, current) ==
    TurnOrder[(IndexOf(TurnOrder, current) % 4) + 1]
GetNextPlayer(room, current) == NextPlayerFrom(room, current, 1)

CountAt(room, color, position) ==
    Cardinality({t \in TokenIds : room.gameState[color].tokens[t] = position})

KillVictimAnyCount(room, attackerColor, position) ==
    IF position \in STAR_POSITIONS THEN NoKill
    ELSE IF position >= HomeStretchFirst THEN NoKill
    ELSE LET cand == {i \in 1..4 : /\ ScanOrder[i] # attackerColor
                                   /\ CountAt(room, ScanOrder[i], position) >= 1}
         IN IF cand = {} THEN NoKill
            ELSE LET color == ScanOrder[MinOf(cand)]
                 IN [color |-> color,
                     tokenIndex |-> MinOf({t \in TokenIds :
                                       room.gameState[color].tokens[t] = position})]

KillVictimOwnColor(room, attackerColor, position) ==
    IF position \in STAR_POSITIONS THEN NoKill
    ELSE IF position >= HomeStretchFirst THEN NoKill
    ELSE LET cand == {i \in 1..4 : CountAt(room, ScanOrder[i], position) = 1}
         IN IF cand = {} THEN NoKill
            ELSE LET color == ScanOrder[MinOf(cand)]
                 IN [color |-> color,
                     tokenIndex |-> CHOOSE t \in TokenIds :
                                       room.gameState[color].tokens[t] = position]

KillVictimNoStar(room, attackerColor, position) ==
    IF position >= HomeStretchFirst THEN NoKill
    ELSE LET cand == {i \in 1..4 : /\ ScanOrder[i] # attackerColor
                                   /\ CountAt(room, ScanOrder[i], position) = 1}
         IN IF cand = {} THEN NoKill
            ELSE LET color == ScanOrder[MinOf(cand)]
                 IN [color |-> color,
                     tokenIndex |-> CHOOSE t \in TokenIds :
                                       room.gameState[color].tokens[t] = position]

\* checkKill: the victim, NoKill for null
KillVictim(room, attackerColor, position) ==
    IF position \in STAR_POSITIONS THEN NoKill
    ELSE IF position >= HomeStretchFirst THEN NoKill
    ELSE LET cand == {i \in 1..4 : /\ ScanOrder[i] # attackerColor
                                   /\ CountAt(room, ScanOrder[i], position) = 1}
         IN IF cand = {} THEN NoKill
            ELSE LET color == ScanOrder[MinOf(cand)]
                 IN [color |-> color,
                     tokenIndex |-> CHOOSE t \in TokenIds :
                                       room.gameState[color].tokens[t] = position]

ApplyKillNoReset(room, killed) == room

ApplyKillWholeCell(room, killed) ==
    IF killed = NoKill THEN room
    ELSE LET p == room.gameState[killed.color].tokens[killed.tokenIndex]
         IN [room EXCEPT !.gameState = [c \in Colors |->
                [@[c] EXCEPT !.tokens = [t \in TokenIds |->
                    IF @[t] = p THEN TokenAtHome ELSE @[t]]]]]

\* checkKill's effect on the board
ApplyKill(room, killed) ==
    IF killed = NoKill THEN room
    ELSE [room EXCEPT !.gameState[killed.color].tokens[killed.tokenIndex] = TokenAtHome]

CanTokenMoveOffByOne(room, color, tokenId, diceValue) ==
    LET currentPos == room.gameState[color].tokens[tokenId]
    IN IF currentPos = TokenAtHome THEN diceValue = 6
       ELSE IF tokenId \in SeqToSet(room.gameState[color].finished) THEN FALSE
       ELSE IF currentPos + diceValue >= HomePos THEN FALSE
       ELSE TRUE

CanTokenMove(room, color, tokenId, diceValue) ==
    LET currentPos == room.gameState[color].tokens[tokenId]
    IN IF currentPos = TokenAtHome THEN diceValue = 6
       ELSE IF tokenId \in SeqToSet(room.gameState[color].finished) THEN FALSE
       ELSE IF currentPos + diceValue > HomePos THEN FALSE
       ELSE TRUE

\* moveToken's "Reached home!" branch
ReachHomeNoFinished(room, color, tokenId) ==
    [room EXCEPT !.gameState[color].score = @ + 1]

ReachHomeNoScore(room, color, tokenId) ==
    [room EXCEPT !.gameState[color].finished = Append(@, tokenId)]

ReachHome(room, color, tokenId) ==
    [room EXCEPT !.gameState[color].score = @ + 1,
                 !.gameState[color].finished = Append(@, tokenId)]

\* moveToken: [room, newPos, killed, validMove]
MoveTokenResult(room, color, tokenId, diceValue) ==
    LET currentPos == room.gameState[color].tokens[tokenId]
    IN IF currentPos = TokenAtHome /\ diceValue = 6
       THEN [room |-> [room EXCEPT !.gameState[color].tokens[tokenId] = START_POSITIONS[color]],
             newPos |-> START_POSITIONS[color], killed |-> NoKill, validMove |-> TRUE]
       ELSE IF currentPos # TokenAtHome
       THEN LET newPos == currentPos + diceValue
            IN IF newPos = HomePos
               THEN [room |-> [ReachHome(room, color, tokenId) EXCEPT
                                  !.gameState[color].tokens[tokenId] = newPos],
                     newPos |-> newPos, killed |-> NoKill, validMove |-> TRUE]
               ELSE IF newPos < HomePos
               THEN LET killed == KillVictim(room, color, newPos)
                        r1 == ApplyKill(room, killed)
                        r2 == IF killed # NoKill
                              THEN [r1 EXCEPT !.gameState[color].kills = @ + 1]
                              ELSE r1
                    IN [room |-> [r2 EXCEPT !.gameState[color].tokens[tokenId] = newPos],
                        newPos |-> newPos, killed |-> killed, validMove |-> TRUE]
               ELSE [room |-> room, newPos |-> currentPos, killed |-> NoKill,
                     validMove |-> FALSE]
       ELSE \* at home without a six: position rewritten unchanged
            [room |-> room, newPos |-> currentPos, killed |-> NoKill, validMove |-> TRUE]

CheckWinner(room) ==
    LET won == {i \in 1..4 : room.gameState[ScanOrder[i]].score = 4}
    IN IF won = {} THEN "none" ELSE ScanOrder[MinOf(won)]


\* -------------------------------------------------------------- server state
VARIABLES rooms, activePlayers, connected, timers, out, nMoves

vars == <<rooms, activePlayers, connected, timers, out, nMoves>>

Put(map, key, value) ==
    [k \in DOMAIN map \cup {key} |-> IF k = key THEN value ELSE map[k]]
Drop(map, key) == [k \in DOMAIN map \ {key} |-> map[k]]

\* what the last handler emitted: reply (socket.emit, to the calling socket
\* only), bcast (io.to(roomCode).emit, to the room's channel) and the payload
\* fields of the broadcast
NoOut == [ev |-> "none", reply |-> "none", err |-> "none",
          bcast |-> "none", room |-> "none", color |-> "none", tokenId |-> -1,
          dice |-> 0, newPos |-> -2, killed |-> NoKill, winner |-> "none",
          next |-> "none", sixes |-> 0]

ErrorOut(ev, s, message) ==
    [NoOut EXCEPT !.ev = ev, !.reply = "error", !.err = message]

\* a pending gameStarted timer holds the room object; once the room has left
\* the registry no handler reaches that object again, its player list is
\* empty and its currentPlayer is the one the callback will report
Orphan(ts, rc, room) ==
    [i \in 1..Len(ts) |->
        IF ts[i].live /\ ts[i].roomCode = rc
        THEN [roomCode |-> rc, live |-> FALSE, firstPlayer |-> room.currentPlayer]
        ELSE ts[i]]

Init ==
    /\ rooms = <<>>
    /\ activePlayers = <<>>
    /\ connected = Sockets
    /\ timers = <<>>
    /\ out = NoOut
    /\ nMoves = 0

CreateRoomCommitsFirst(s, rc, gameMode) ==
    /\ s \in connected
    /\ LET room == AddPlayer(NewGameRoom(rc, gameMode), s, "red")
       IN /\ rooms' = Put(rooms, rc, room)
          /\ activePlayers' = Put(activePlayers, s, [roomCode |-> rc, color |-> "red"])
          /\ out' = IF rc \in DOMAIN rooms
                    THEN ErrorOut("createRoom", s, "Room already exists!")
                    ELSE [NoOut EXCEPT !.ev = "createRoom", !.reply = "roomCreated",
                                       !.room = rc, !.color = "red"]
          /\ UNCHANGED <<connected, timers, nMoves>>

\* socket.on('createRoom')
CreateRoom(s, rc, gameMode) ==
    /\ s \in connected
    /\ IF rc \in DOMAIN rooms
       THEN /\ out' = ErrorOut("createRoom", s, "Room already exists!")
            /\ UNCHANGED <<rooms, activePlayers, connected, timers, nMoves>>
       ELSE LET room == AddPlayer(NewGameRoom(rc, gameMode), s, "red")
            IN /\ rooms' = Put(rooms, rc, room)
               /\ activePlayers' = Put(activePlayers, s, [roomCode |-> rc, color |-> "red"])
               /\ out' = [NoOut EXCEPT !.ev = "createRoom",
                                       !.reply = "roomCreated", !.room = rc,
                                       !.color = "red"]
               /\ UNCHANGED <<connected, timers, nMoves>>

\* the player entries one connection holds in a room
Seats(room, socketId) ==
    Cardinality({i \in 1..Len(room.players) : room.players[i].socketId = socketId})

AvailableColorInTurnOrder(room) ==
    LET free == {i \in 1..4 : TurnOrder[i] \notin ActiveColors(room)}
    IN IF free = {} THEN "none" ELSE TurnOrder[MinOf(free)]

\* colors.find(c => !takenColors.includes(c)), "none" for undefined
AvailableColor(room) ==
    LET free == {i \in 1..4 : JoinOrder[i] \notin ActiveColors(room)}
    IN IF free = {} THEN "none" ELSE JoinOrder[MinOf(free)]

\* socket.on('joinRoom'), one connection holding at most `seats` entries of a room
JoinRoomUpTo(s, rc, seats) ==
    /\ s \in connected
    /\ IF rc \notin DOMAIN rooms
       THEN /\ out' = ErrorOut("joinRoom", s, "Room not found!")
            /\ UNCHANGED <<rooms, activePlayers, connected, timers, nMoves>>
       ELSE IF Len(rooms[rc].players) >= MaxPlayers
       THEN /\ out' = ErrorOut("joinRoom", s, "Room is full!")
            /\ UNCHANGED <<rooms, activePlayers, connected, timers, nMoves>>
       ELSE IF AvailableColor(rooms[rc]) = "none"
       THEN /\ out' = ErrorOut("joinRoom", s, "No colors available!")
            /\ UNCHANGED <<rooms, activePlayers, connected, timers, nMoves>>
       ELSE LET availableColor == AvailableColor(rooms[rc])
                joined == AddPlayer(rooms[rc], s, availableColor)
                starts == Len(joined.players) >= 2 /\ ~joined.gameStarted
            IN /\ Seats(rooms[rc], s) < seats
               /\ starts => Len(timers) < MaxTimers
               /\ rooms' = Put(rooms, rc, [joined EXCEPT !.gameStarted = @ \/ starts])
               /\ activePlayers' = Put(activePlayers, s,
                                       [roomCode |-> rc, color |-> availableColor])
               /\ timers' = IF starts
                            THEN Append(timers, [roomCode |-> rc, live |-> TRUE,
                                                 firstPlayer |-> "none"])
                            ELSE timers
               /\ out' = [NoOut EXCEPT !.ev = "joinRoom",
                                       !.reply = "roomJoined", !.bcast = "playerJoined",
                                       !.room = rc, !.color = availableColor]
               /\ UNCHANGED <<connected, nMoves>>

JoinRoom(s, rc) == JoinRoomUpTo(s, rc, MaxSeats)

\* the setTimeout callback of joinRoom
TimerFire ==
    /\ timers # <<>>
    /\ LET t == Head(timers)
           firstPlayer == IF t.live THEN rooms[t.roomCode].currentPlayer
                          ELSE t.firstPlayer
       IN out' = [NoOut EXCEPT !.ev = "timer", !.bcast = "gameStarted",
                               !.room = t.roomCode, !.color = firstPlayer]
    /\ timers' = Tail(timers)
    /\ UNCHANGED <<rooms, activePlayers, connected, nMoves>>

\* the consecutive-six counter after a roll
SixesAfter(count, diceValue) ==
    IF diceValue = 6 THEN (IF count = NoCount THEN NoCount ELSE count + 1) ELSE 0

\* the turn check of rollDice and moveToken
NotYourTurnNever(room, color) == FALSE
NotYourTurn(room, color) == room.currentPlayer # color

\* the three-sixes branch of rollDice
SkipTurnKeepsCount(room, playerColor) ==
    [room EXCEPT !.currentPlayer = GetNextPlayer(room, playerColor)]

SkipTurn(room, playerColor) ==
    [room EXCEPT !.consecutiveSixes[playerColor] = 0,
                 !.currentPlayer = GetNextPlayer(room, playerColor)]

\* socket.on('rollDice')
RollDice(s, rc, diceValue, playerColor) ==
    /\ s \in connected
    /\ UNCHANGED <<activePlayers, connected, timers, nMoves>>
    /\ IF rc \notin DOMAIN rooms
       THEN /\ out' = ErrorOut("rollDice", s, "Room not found!")
            /\ UNCHANGED rooms
       ELSE IF NotYourTurn(rooms[rc], playerColor)
       THEN /\ out' = ErrorOut("rollDice", s, "Not your turn!")
            /\ UNCHANGED rooms
       ELSE LET room == rooms[rc]
                count == SixesAfter(room.consecutiveSixes[playerColor], diceValue)
            IN IF count >= SixLimit
               THEN LET skipped == SkipTurn([room EXCEPT !.consecutiveSixes[playerColor] = count],
                                            playerColor)
                    IN /\ rooms' = Put(rooms, rc, skipped)
                       /\ out' = [NoOut EXCEPT !.ev = "rollDice",
                                        !.bcast = "turnSkipped", !.room = rc,
                                        !.color = playerColor,
                                        !.next = skipped.currentPlayer]
               ELSE /\ rooms' = Put(rooms, rc,
                                    [room EXCEPT !.consecutiveSixes[playerColor] = count,
                                                 !.lastDiceRoll = diceValue])
                    /\ out' = [NoOut EXCEPT !.ev = "rollDice",
                                     !.bcast = "diceRolledFromServer", !.room = rc,
                                     !.color = playerColor, !.dice = diceValue,
                                     !.sixes = count]

\* the turn pointer and six-counter after a valid move
TurnAfterMoveIgnoringWinner(room, player, diceValue, winner) ==
    IF diceValue # 6
    THEN [room EXCEPT !.currentPlayer = GetNextPlayer(room, player),
                      !.consecutiveSixes[player] = 0]
    ELSE room

TurnAfterMoveNoReset(room, player, diceValue, winner) ==
    IF diceValue # 6 /\ winner = "none"
    THEN [room EXCEPT !.currentPlayer = GetNextPlayer(room, player)]
    ELSE room

TurnAfterMove(room, player, diceValue, winner) ==
    IF diceValue # 6 /\ winner = "none"
    THEN [room EXCEPT !.currentPlayer = GetNextPlayer(room, player),
                      !.consecutiveSixes[player] = 0]
    ELSE room

\* the checks of moveToken before anything is changed: the error message sent
\* to the caller, "none" when the move goes through
MoveError(reg, rc, player, tokenId, diceValue) ==
    IF rc \notin DOMAIN reg THEN "Room not found!"
    ELSE IF NotYourTurn(reg[rc], player) THEN "Not your turn!"
    ELSE IF ~CanTokenMove(reg[rc], player, tokenId, diceValue) THEN "Invalid move!"
    ELSE IF ~MoveTokenResult(reg[rc], player, tokenId, diceValue).validMove
         THEN "Invalid move! Need exact number to enter home."
    ELSE "none"

\* socket.on('moveToken')
MoveToken(s, rc, player, tokenId, diceValue) ==
    /\ s \in connected
    /\ UNCHANGED <<activePlayers, connected, timers>>
    /\ IF MoveError(rooms, rc, player, tokenId, diceValue) # "none"
       THEN /\ out' = ErrorOut("moveToken", s,
                               MoveError(rooms, rc, player, tokenId, diceValue))
            /\ UNCHANGED <<rooms, nMoves>>
       ELSE LET moveResult == MoveTokenResult(rooms[rc], player, tokenId, diceValue)
            IN      LET winner == CheckWinner(moveResult.room)
                        room == TurnAfterMove(moveResult.room, player, diceValue, winner)
                    IN /\ nMoves < MaxMoves
                       /\ nMoves' = nMoves + 1
                       /\ rooms' = Put(rooms, rc, room)
                       /\ out' = [NoOut EXCEPT !.ev = "moveToken",
                                        !.bcast = "tokenMovedFromServer", !.room = rc,
                                        !.color = player, !.tokenId = tokenId,
                                        !.dice = diceValue, !.newPos = moveResult.newPos,
                                        !.killed = moveResult.killed, !.winner = winner,
                                        !.next = room.currentPlayer]

RemoveFromRoomKeepsEmpty(s, rc) ==
    /\ rooms' = Put(rooms, rc, RemovePlayer(rooms[rc], s))
    /\ UNCHANGED timers

\* room.removePlayer, the playerLeft broadcast and the deletion of an empty room
RemoveFromRoom(s, rc) ==
    LET room == RemovePlayer(rooms[rc], s)
    IN IF Len(room.players) = 0
       THEN /\ rooms' = Drop(rooms, rc)
            /\ timers' = Orphan(timers, rc, room)
       ELSE /\ rooms' = Put(rooms, rc, room)
            /\ UNCHANGED timers

\* socket.on('leaveRoom')
LeaveRoom(s, rc) ==
    /\ s \in connected
    /\ UNCHANGED <<connected, nMoves>>
    /\ activePlayers' = Drop(activePlayers, s)
    /\ IF rc \in DOMAIN rooms
       THEN /\ RemoveFromRoom(s, rc)
            /\ out' = [NoOut EXCEPT !.ev = "leaveRoom",
                                    !.bcast = "playerLeft", !.room = rc]
       ELSE /\ out' = [NoOut EXCEPT !.ev = "leaveRoom", !.room = rc]
            /\ UNCHANGED <<rooms, timers>>

\* socket.on('disconnect')
Disconnect(s) ==
    /\ s \in connected
    /\ connected' = connected \ {s}
    /\ UNCHANGED nMoves
    /\ IF s \in DOMAIN activePlayers
       THEN /\ activePlayers' = Drop(activePlayers, s)
            /\ IF activePlayers[s].roomCode \in DOMAIN rooms
               THEN /\ RemoveFromRoom(s, activePlayers[s].roomCode)
                    /\ out' = [NoOut EXCEPT !.ev = "disconnect",
                                     !.bcast = "playerLeft",
                                     !.room = activePlayers[s].roomCode]
               ELSE /\ out' = [NoOut EXCEPT !.ev = "disconnect"]
                    /\ UNCHANGED <<rooms, timers>>
       ELSE /\ out' = [NoOut EXCEPT !.ev = "disconnect"]
            /\ UNCHANGED <<rooms, activePlayers, timers>>

Next ==
    \/ \E s \in Sockets, rc \in RoomCodes : CreateRoom(s, rc, "classic")
    \/ \E s \in Sockets, rc \in RoomCodes : JoinRoom(s, rc)
    \/ \E s \in Sockets, rc \in RoomCodes, d \in RollValues, c \in Colors :
          RollDice(s, rc, d, c)
    \/ \E s \in Sockets, rc \in RoomCodes, c \in Colors, t \in TokenIds, d \in DiceValues :
          MoveToken(s, rc, c, t, d)
    \/ \E s \in Sockets, rc \in RoomCodes : LeaveRoom(s, rc)
    \/ \E s \in Sockets : Disconnect(s)
    \/ TimerFire

Spec == Init /\ [][Next]_vars

\* ------------------------------------------------------------ boards in play
(***************************************************************************)
(* Boards of a started two-player room (connection 1 red, connection 2     *)
(* green), as play reaches them.  A colour keeps the turn by moving with a *)
(* six and gives it up by rolling three sixes, so the tokens of any colour *)
(* can be walked in any order by any steps of 1..6; the walk steps over    *)
(* occupied cells, so nothing is captured on the way (kills 0).  Where a   *)
(* cell holds a pair and a foreign token, the pair arrived first.  A blue  *)
(* token on the board belongs to a third connection that joined as blue,   *)
(* moved and disconnected.  The last roll was a 5 of the colour in turn.   *)
(***************************************************************************)
HomeRow == [t \in TokenIds |-> TokenAtHome]
Tokens4(a, b, c, d) == [t \in TokenIds |-> CASE t = 0 -> a [] t = 1 -> b [] t = 2 -> c [] OTHER -> d]

BoardLayouts ==
    { \* a green token one step ahead of a red one, a second red token one
      \* step further, a second green token on the star cell 21
      [red |-> Tokens4(13, 15, -1, -1), green |-> Tokens4(14, 21, -1, -1), blue |-> HomeRow],
      \* a green pair and a blue token on cell 40, a red token one step behind
      [red |-> Tokens4(39, -1, -1, -1), green |-> Tokens4(40, 40, -1, -1),
       blue |-> Tokens4(40, -1, -1, -1)],
      \* red one token short of winning
      [red |-> Tokens4(57, 57, 57, 56), green |-> Tokens4(55, 13, -1, -1), blue |-> HomeRow] }

FinishedOf(tokens) ==
    LET F[t \in -1..3] == IF t = -1 THEN <<>>
                          ELSE IF tokens[t] = HomePos THEN Append(F[t - 1], t) ELSE F[t - 1]
    IN F[3]

BoardColorState(tokens) ==
    [tokens |-> tokens, score |-> Len(FinishedOf(tokens)), kills |-> 0,
     finished |-> FinishedOf(tokens)]

BoardRoom(layout, current) ==
    [roomCode |-> "A", gameMode |-> "classic",
     players |-> <<[socketId |-> 1, color |-> "red"], [socketId |-> 2, color |-> "green"]>>,
     currentPlayer |-> current, gameStarted |-> TRUE,
     consecutiveSixes |-> [c \in Colors |->
         IF c \in {"red", "green"} \/ (c = "blue" /\ layout.blue # HomeRow) THEN 0 ELSE NoCount],
     lastDiceRoll |-> 5,
     gameState |-> [c \in Colors |->
         IF c = "yellow" THEN NewColorState ELSE BoardColorState(layout[c])]]

\* the colours that can hold the turn on a board: the two players, and blue
\* where blue played, its connection having left while it was blue's turn
BoardTurns(layout) ==
    {"red", "green"} \cup (IF layout.blue # HomeRow THEN {"blue"} ELSE {})

InitBoard ==
    \E layout \in BoardLayouts : \E current \in BoardTurns(layout) :
        /\ rooms = [rc \in {"A"} |-> BoardRoom(layout, current)]
        /\ activePlayers = [s \in {1, 2} |->
               [roomCode |-> "A", color |-> IF s = 1 THEN "red" ELSE "green"]]
        /\ connected = {1, 2}
        /\ timers = <<>>
        /\ out = [NoOut EXCEPT !.ev = "rollDice", !.bcast = "diceRolledFromServer",
                               !.room = "A", !.color = current, !.dice = 5]
        /\ nMoves = 0

NextBoard ==
    \/ \E s \in Sockets, rc \in RoomCodes, d \in RollValues, c \in Colors :
          RollDice(s, rc, d, c)
    \/ \E s \in Sockets, rc \in RoomCodes, c \in Colors, t \in TokenIds, d \in DiceValues :
          MoveToken(s, rc, c, t, d)
    \/ \E s \in Sockets, rc \in RoomCodes : JoinRoom(s, rc)
    \/ \E s \in Sockets, rc \in RoomCodes : LeaveRoom(s, rc)
    \/ \E s \in Sockets : Disconnect(s)

SpecBoard == InitBoard /\ [][NextBoard]_vars

\* ---------------------------------------------------------------- the lobby
(***************************************************************************)
(* The server from boot with connections that join a room more than once   *)
(* and joinRoom and leaveRoom events that name a code no room was created  *)
(* with.  No six is rolled here: every token stays at home, and the rolls  *)
(* and moves of the lobby are the ones the handlers answer with an error   *)
(* or with a plain diceRolledFromServer.                                   *)
(***************************************************************************)
NextLobby ==
    \/ \E s \in Sockets, rc \in RoomCodes : CreateRoom(s, rc, "classic")
    \/ \E s \in Sockets, rc \in RoomCodes \cup {UnusedCode} : JoinRoomUpTo(s, rc, LobbySeats)
    \/ \E s \in Sockets, rc \in RoomCodes, d \in RollValues \ {6}, c \in Colors :
          RollDice(s, rc, d, c)
    \/ \E s \in Sockets, rc \in RoomCodes, c \in Colors, t \in TokenIds, d \in RollValues \ {6} :
          MoveToken(s, rc, c, t, d)
    \/ \E s \in Sockets, rc \in RoomCodes \cup {UnusedCode} : LeaveRoom(s, rc)
    \/ \E s \in Sockets : Disconnect(s)
    \/ TimerFire

SpecLobby == Init /\ [][NextLobby]_vars

\* ------------------------------------------------------- rooms at a turn pass
(***************************************************************************)
(* Rooms in which four connections joined (red, green, blue, yellow in     *)
(* that order), the turn went round to any colour, that colour rolled two  *)
(* sixes, and some of the players then left through leaveRoom: every       *)
(* non-empty set of active colours with every colour in turn.              *)
(***************************************************************************)
TurnSockets == 1..MaxPlayers

TurnPlayers(active) ==
    LET P[i \in 0..4] ==
            IF i = 0 THEN <<>>
            ELSE IF JoinOrder[i] \in active
                 THEN Append(P[i - 1], [socketId |-> i, color |-> JoinOrder[i]])
                 ELSE P[i - 1]
    IN P[4]

TurnRoom(active, current) ==
    [NewGameRoom("A", "classic") EXCEPT
        !.players = TurnPlayers(active),
        !.currentPlayer = current,
        !.gameStarted = TRUE,
        !.consecutiveSixes = [c \in Colors |-> IF c = current THEN 2 ELSE 0],
        !.lastDiceRoll = 6]

InitTurn ==
    \E active \in SUBSET Colors \ {{}}, current \in Colors :
        /\ rooms = [rc \in {"A"} |-> TurnRoom(active, current)]
        /\ activePlayers = [s \in {i \in TurnSockets : JoinOrder[i] \in active} |->
                               [roomCode |-> "A", color |-> JoinOrder[s]]]
        /\ connected = TurnSockets
        /\ timers = <<>>
        /\ out = [NoOut EXCEPT !.ev = "rollDice", !.bcast = "diceRolledFromServer",
                               !.room = "A", !.color = current, !.dice = 6, !.sixes = 2]
        /\ nMoves = 0

NextTurn ==
    \E s \in TurnSockets, rc \in RoomCodes, d \in RollValues, c \in Colors :
        RollDice(s, rc, d, c)

SpecTurn == InitTurn /\ [][NextTurn]_vars

\* ------------------------------------------------------------------- claims
\* the next colour of the fixed cycle red -> green -> yellow -> blue -> red
CycleSucc(c) ==
    CASE c = "red" -> "green" [] c = "green" -> "yellow" [] c = "yellow" -> "blue"
      [] OTHER -> "red"

\* the first colour after `current` in the cycle that has an active player,
\* `current` when there is no other
FirstActiveAfter(active, current) ==
    IF CycleSucc(current) \in active THEN CycleSucc(current)
    ELSE IF CycleSucc(CycleSucc(current)) \in active THEN CycleSucc(CycleSucc(current))
    ELSE IF CycleSucc(CycleSucc(CycleSucc(current))) \in active
         THEN CycleSucc(CycleSucc(CycleSucc(current)))
    ELSE current

KillsOf(room) == [c \in Colors |-> room.gameState[c].kills]

\* this step is the handling of an accepted moveToken, whose room, colour,
\* token and dice value the tokenMovedFromServer broadcast carries
AcceptedMove ==
    /\ out'.bcast = "tokenMovedFromServer"
    /\ \E s \in connected :
          MoveToken(s, out'.room, out'.color, out'.tokenId, out'.dice)

\* C1: a rollDice for an existing room is accepted (broadcast diceRolled or
\* turnSkipped, no error) exactly when the colour named equals the room's
\* current-turn colour; otherwise the caller gets "Not your turn!", nothing is
\* broadcast and the room is unchanged.
C1_RollAcceptedIffTurn ==
    [][out'.ev = "rollDice" =>
       \A s \in connected, rc \in DOMAIN rooms, d \in RollValues, c \in Colors :
          RollDice(s, rc, d, c) =>
              IF c = rooms[rc].currentPlayer
              THEN /\ out'.bcast \in {"diceRolledFromServer", "turnSkipped"}
                   /\ out'.reply = "none"
              ELSE /\ out'.reply = "error"
                   /\ out'.err = "Not your turn!"
                   /\ out'.bcast = "none"
                   /\ rooms' = rooms]_vars

C1_Witness ==
    /\ out.ev = "rollDice"
    /\ out.err = "Not your turn!"
    /\ "A" \in DOMAIN rooms
    /\ rooms["A"].lastDiceRoll # 0

\* C2: the accepted roll that is a colour's third consecutive six resets that
\* colour's six-counter to 0, passes the turn to the next active colour of the
\* cycle, changes no token position, score or kill count, and does not record
\* the dice value as the last dice roll.
C2_ThirdSixSkips ==
    [][out'.ev = "rollDice" =>
       \A s \in connected, rc \in DOMAIN rooms, c \in Colors :
          (/\ c = rooms[rc].currentPlayer
           /\ rooms[rc].consecutiveSixes[c] = SixLimit - 1
           /\ RollDice(s, rc, 6, c)) =>
              /\ rooms'[rc].consecutiveSixes[c] = 0
              /\ rooms'[rc].currentPlayer =
                     FirstActiveAfter(ActiveColors(rooms[rc]), c)
              /\ rooms'[rc].gameState = rooms[rc].gameState
              /\ rooms'[rc].lastDiceRoll = rooms[rc].lastDiceRoll
              /\ out'.bcast = "turnSkipped"]_vars

C2_Witness ==
    /\ out.bcast = "turnSkipped"
    /\ out.next # out.color
    /\ rooms[out.room].lastDiceRoll = 6

\* C3: after an accepted moveToken that produced no winner, a dice value other
\* than 6 passes the turn to the next active colour of the cycle and leaves the
\* six-counters of the mover and of the colour now in turn at 0; a dice value
\* of 6 leaves the turn with the mover and the mover's six-counter unchanged.
C3_TurnAfterMove ==
    [][(AcceptedMove /\ out'.winner = "none") =>
          LET rc == out'.room
              c == out'.color
          IN  IF out'.dice # 6
              THEN /\ rooms'[rc].currentPlayer =
                          FirstActiveAfter(ActiveColors(rooms[rc]), c)
                   /\ rooms'[rc].consecutiveSixes[rooms'[rc].currentPlayer] = 0
                   /\ rooms'[rc].consecutiveSixes[c] = 0
              ELSE /\ rooms'[rc].currentPlayer = c
                   /\ rooms'[rc].consecutiveSixes[c] = rooms[rc].consecutiveSixes[c]]_vars

C3_Witness ==
    /\ out.bcast = "tokenMovedFromServer"
    /\ out.winner = "none"
    /\ out.dice # 6
    /\ out.next # out.color
    /\ rooms[out.room].lastDiceRoll = 6

\* the movability rule as stated: from home with a six, or on the board below
\* 57, not finished, and not overshooting 57
Movable(room, c, t, d) ==
    LET p == room.gameState[c].tokens[t]
    IN \/ p = TokenAtHome /\ d = 6
       \/ /\ 0 <= p /\ p < HomePos
          /\ \A i \in 1..Len(room.gameState[c].finished) : room.gameState[c].finished[i] # t
          /\ p + d <= HomePos

\* canTokenMove agrees with the rule, and a moveToken failing the rule is
\* refused, with "Invalid move!" when it names the colour in turn
CanTokenMoveAsStated ==
    \A rc \in DOMAIN rooms, c \in Colors, t \in TokenIds, d \in DiceValues :
        /\ CanTokenMove(rooms[rc], c, t, d) <=> Movable(rooms[rc], c, t, d)
        /\ ~Movable(rooms[rc], c, t, d) =>
              /\ MoveError(rooms, rc, c, t, d) # "none"
              /\ c = rooms[rc].currentPlayer =>
                    MoveError(rooms, rc, c, t, d) = "Invalid move!"

\* C4: on every board canTokenMove is true exactly when the token is at home
\* and the dice is 6, or the token is on the board below 57, not finished, and
\* position + dice <= 57; a moveToken that fails the test is never accepted, a
\* rejected moveToken changes no state, and a moveToken of the colour in turn
\* that fails the test is answered "Invalid move!".
C4_CanTokenMove ==
    [][/\ rooms' # rooms => (CanTokenMoveAsStated /\ CanTokenMoveAsStated')
       /\ AcceptedMove => Movable(rooms[out'.room], out'.color, out'.tokenId, out'.dice)
       /\ (out'.ev = "moveToken" /\ out'.reply = "error") =>
             UNCHANGED <<rooms, activePlayers, connected, timers, nMoves>>]_vars

C4_Witness ==
    /\ out.ev = "moveToken"
    /\ out.err = "Invalid move!"
    /\ \E c \in Colors, t \in TokenIds :
          /\ rooms["A"].currentPlayer = c
          /\ rooms["A"].gameState[c].tokens[t] = 56

\* an accepted move that is not an entry from home
NonEntryMove ==
    /\ AcceptedMove
    /\ rooms[out'.room].gameState[out'.color].tokens[out'.tokenId] # TokenAtHome

\* the tokens of colours other than `c` standing on cell p
OthersAt(room, c, p) ==
    {ct \in (Colors \ {c}) \X TokenIds : room.gameState[ct[1]].tokens[ct[2]] = p}

C6_SingleTokenCaptured ==
    [][NonEntryMove =>
          LET rc == out'.room
              c == out'.color
              p == out'.newPos
              others == OthersAt(rooms[rc], c, p)
          IN (p < HomeStretchFirst /\ p \notin STAR_POSITIONS /\ Cardinality(others) = 1) =>
                LET victim == CHOOSE ct \in others : TRUE
                IN /\ rooms'[rc].gameState[victim[1]].tokens[victim[2]] = TokenAtHome
                   /\ rooms'[rc].gameState[c].kills = rooms[rc].gameState[c].kills + 1
                   /\ out'.killed = [color |-> victim[1], tokenIndex |-> victim[2]]
                   /\ \A y \in Colors, t \in TokenIds :
                         (<<y, t>> # victim /\ <<y, t>> # <<c, out'.tokenId>>) =>
                             rooms'[rc].gameState[y].tokens[t] =
                                 rooms[rc].gameState[y].tokens[t]]_vars

C6_Witness ==
    /\ out.bcast = "tokenMovedFromServer"
    /\ out.killed # NoKill
    /\ rooms[out.room].gameState[out.killed.color].tokens[out.killed.tokenIndex] = TokenAtHome
    /\ rooms[out.room].gameState[out.color].kills = 1

\* C7: an accepted move that brings a token to 57 raises that colour's score
\* by exactly 1, adds the token index to that colour's finished set, and
\* changes no other colour's token positions and no kill count.
C7_ReachingHome ==
    [][(AcceptedMove /\ out'.newPos = HomePos) =>
          LET rc == out'.room
              c == out'.color
          IN /\ rooms'[rc].gameState[c].score = rooms[rc].gameState[c].score + 1
             /\ SeqToSet(rooms'[rc].gameState[c].finished) =
                    SeqToSet(rooms[rc].gameState[c].finished) \cup {out'.tokenId}
             /\ out'.tokenId \notin SeqToSet(rooms[rc].gameState[c].finished)
             /\ \A y \in Colors \ {c} :
                    rooms'[rc].gameState[y].tokens = rooms[rc].gameState[y].tokens
             /\ KillsOf(rooms'[rc]) = KillsOf(rooms[rc])
             /\ out'.killed = NoKill]_vars

C7_Witness ==
    /\ out.bcast = "tokenMovedFromServer"
    /\ out.newPos = HomePos
    /\ rooms[out.room].gameState[out.color].score >= 1

\* C8: in every room with at least one player, for every colour `current`,
\* getNextPlayer(current) has an active player, and it is `current` itself only
\* when `current` is the only colour with an active player.
C8_NextPlayerIsActive ==
    \A rc \in DOMAIN rooms, current \in Colors :
        Len(rooms[rc].players) >= 1 =>
            LET next == GetNextPlayer(rooms[rc], current)
            IN /\ next \in ActiveColors(rooms[rc])
               /\ next = current => ActiveColors(rooms[rc]) = {current}

C8_Witness ==
    /\ out.bcast = "turnSkipped"
    /\ out.color = "yellow"
    /\ out.next = "red"
    /\ ActiveColors(rooms[out.room]) = {"red", "green"}

\* C9 as stated: in a started room the current-turn colour is the colour of
\* some player of the room's player list.
C9_TurnHolderIsPlayer ==
    \A rc \in DOMAIN rooms :
        rooms[rc].gameStarted => rooms[rc].currentPlayer \in ActiveColors(rooms[rc])

C11_PositionsMonotone ==
    [][\A rc \in DOMAIN rooms \cap DOMAIN rooms', c \in Colors, t \in TokenIds :
          LET p == rooms[rc].gameState[c].tokens[t]
              q == rooms'[rc].gameState[c].tokens[t]
          IN /\ p \in TokenAtHome..HomePos
             /\ q \in TokenAtHome..HomePos
             /\ q < p => /\ q = TokenAtHome
                         /\ AcceptedMove
                         /\ out'.room = rc
                         /\ out'.color # c
                         /\ out'.killed = [color |-> c, tokenIndex |-> t]]_vars

C11_Witness ==
    /\ out.bcast = "tokenMovedFromServer"
    /\ out.killed = [color |-> "blue", tokenIndex |-> 0]
    /\ rooms[out.room].gameState["blue"].tokens[0] = TokenAtHome
    /\ rooms[out.room].gameState[out.color].tokens[out.tokenId] = out.newPos
    /\ out.newPos > 0

\* C12: an event answered with an error (createRoom, joinRoom, rollDice or
\* moveToken) leaves the room registry with every field of every room, the
\* session map and the pending timers unchanged.
C12_ErrorChangesNothing ==
    [][out'.reply = "error" =>
          /\ out'.ev \in {"createRoom", "joinRoom", "rollDice", "moveToken"}
          /\ out'.bcast = "none"
          /\ UNCHANGED <<rooms, activePlayers, connected, timers, nMoves>>]_vars

C12_Witness ==
    /\ out.ev = "joinRoom"
    /\ out.err = "Room is full!"
    /\ Len(rooms["A"].players) = MaxPlayers
    /\ rooms["A"].lastDiceRoll # 0

\* C13: after every event every room of the registry has a non-empty player
\* list (the leaveRoom or disconnect that removes the last player removes the
\* room), and a room just created holds its creator, as red, and nobody else.
C13_NoEmptyRoom ==
    /\ \A rc \in DOMAIN rooms : Len(rooms[rc].players) >= 1
    /\ out.reply = "roomCreated" =>
          /\ out.room \in DOMAIN rooms
          /\ Len(rooms[out.room].players) = 1
          /\ rooms[out.room].players[1].color = "red"
          /\ rooms[out.room].players[1].socketId \in DOMAIN activePlayers
    /\ (out.bcast = "playerLeft" /\ out.room \in DOMAIN rooms) =>
          Len(rooms[out.room].players) >= 1

C13_Witness ==
    /\ out.bcast = "playerLeft"
    /\ out.room \notin DOMAIN rooms
    /\ timers # <<>>
    /\ connected = Sockets

\* C14: every room has at most 4 player entries and no two entries of a room
\* have the same colour, also when a connection joins the same room again.
C14_FourPlayersDistinctColors ==
    \A rc \in DOMAIN rooms :
        /\ Len(rooms[rc].players) <= 4
        /\ \A i, j \in 1..Len(rooms[rc].players) :
               rooms[rc].players[i].color = rooms[rc].players[j].color => i = j

C14_Witness ==
    /\ out.reply = "roomJoined"
    /\ Len(rooms[out.room].players) = 4
    /\ \E s \in Sockets : Seats(rooms[out.room], s) = 3

\* the first colour of red, green, blue, yellow that is not taken
FirstFreeColor(taken) ==
    IF "red" \notin taken THEN "red"
    ELSE IF "green" \notin taken THEN "green"
    ELSE IF "blue" \notin taken THEN "blue"
    ELSE "yellow"

\* C15: an accepted createRoom makes the creator the red player of the new
\* room; an accepted joinRoom appends the joiner with the first colour of red,
\* green, blue, yellow that no player of the room holds and records that
\* colour in the joiner's session; a joinRoom for a room of 4 players is
\* answered "Room is full!".
C15_ColorAssignment ==
    [][/\ out'.reply = "roomCreated" =>
             /\ out'.room \notin DOMAIN rooms
             /\ out'.color = "red"
             /\ \E s \in connected :
                    /\ rooms'[out'.room].players = <<[socketId |-> s, color |-> "red"]>>
                    /\ activePlayers'[s] = [roomCode |-> out'.room, color |-> "red"]
       /\ out'.reply = "roomJoined" =>
             LET room == rooms[out'.room]
                 c == FirstFreeColor({room.players[i].color : i \in 1..Len(room.players)})
             IN /\ Len(room.players) < 4
                /\ out'.color = c
                /\ \E s \in connected :
                       /\ rooms'[out'.room].players =
                              Append(room.players, [socketId |-> s, color |-> c])
                       /\ activePlayers'[s] = [roomCode |-> out'.room, color |-> c]
       /\ out'.ev = "joinRoom" =>
             \A s \in connected, rc \in DOMAIN rooms :
                 (Len(rooms[rc].players) = 4 /\ JoinRoomUpTo(s, rc, MaxPlayers)) =>
                     /\ out'.reply = "error"
                     /\ out'.err = "Room is full!"]_vars

C15_Witness ==
    /\ out.reply = "roomJoined"
    /\ out.color = "green"
    /\ Len(rooms[out.room].players) = 3
    /\ rooms[out.room].players[1].color = "red"
    /\ rooms[out.room].players[2].color = "blue"
    /\ rooms[out.room].players[3].color = "green"

\* C16: a room is created not started; its started flag turns true exactly in
\* the joinRoom that brings its player count from 1 to 2 and never turns false
\* afterwards; when the flag turns true the current-turn colour is red.
C16_StartOnSecondPlayer ==
    [][\A rc \in DOMAIN rooms' :
          IF rc \in DOMAIN rooms
          THEN /\ rooms[rc].gameStarted => rooms'[rc].gameStarted
               /\ (~rooms[rc].gameStarted /\ rooms'[rc].gameStarted) =>
                      /\ out'.reply = "roomJoined"
                      /\ out'.room = rc
                      /\ Len(rooms[rc].players) = 1
                      /\ Len(rooms'[rc].players) = 2
                      /\ rooms'[rc].currentPlayer = "red"
               /\ (out'.reply = "roomJoined" /\ out'.room = rc) => rooms'[rc].gameStarted
               /\ ~rooms'[rc].gameStarted => Len(rooms'[rc].players) = 1
          ELSE /\ ~rooms'[rc].gameStarted
               /\ rooms'[rc].currentPlayer = "red"]_vars

C16_Witness ==
    /\ out.reply = "roomJoined"
    /\ rooms[out.room].gameStarted
    /\ Len(rooms[out.room].players) = 2
    /\ rooms[out.room].gameState["red"].tokens[0] = START_POSITIONS["red"]
    /\ rooms[out.room].lastDiceRoll = 6
    /\ Len(timers) = 1

\* C17 as stated: a leaveRoom naming a room code that is not in the registry
\* changes neither the registry nor the session map.
C17_LeaveUnknownRoomChangesNothing ==
    [][(out'.ev = "leaveRoom" /\ out'.room \notin DOMAIN rooms) =>
          (rooms' = rooms /\ activePlayers' = activePlayers)]_vars

\* the cells on which no token is captured: the star cells and 52..57
SafeCell(p) == p \in {0, 8, 13, 21, 26, 34, 39, 47} \/ p \in 52..57

\* C18: an accepted move sends home no token that stands on a star cell or at
\* a position in 52..57: every such token other than the moved one keeps its
\* position, and the moved one does not go to -1.
C18_SafeCells ==
    [][AcceptedMove =>
          \A c \in Colors, t \in TokenIds :
              LET p == rooms[out'.room].gameState[c].tokens[t]
                  q == rooms'[out'.room].gameState[c].tokens[t]
              IN SafeCell(p) =>
                    /\ q # TokenAtHome
                    /\ (c # out'.color \/ t # out'.tokenId) => q = p]_vars

C18_Witness ==
    /\ out.bcast = "tokenMovedFromServer"
    /\ out.color = "red"
    /\ out.newPos = 21
    /\ out.killed = NoKill
    /\ CountAt(rooms[out.room], "green", 21) = 1
    /\ CountAt(rooms[out.room], "red", 21) = 1

\* the start offsets as stated: red 0, green 13, yellow 26, blue 39
StartOffset(c) ==
    CASE c = "red" -> 0 [] c = "green" -> 13 [] c = "yellow" -> 26 [] c = "blue" -> 39

\* C19: an accepted move of a token at -1 is made with dice 6 and puts the
\* token on its colour's start offset; an accepted move of a token at p >= 0
\* puts it on p + dice; the broadcast carries the new position, and the
\* mover's other three tokens keep their positions.
C19_MoveArithmetic ==
    [][AcceptedMove =>
          LET old == rooms[out'.room].gameState[out'.color].tokens
              new == rooms'[out'.room].gameState[out'.color].tokens
              t == out'.tokenId
          IN /\ old[t] = -1 => (out'.dice = 6 /\ new[t] = StartOffset(out'.color))
             /\ old[t] >= 0 => new[t] = old[t] + out'.dice
             /\ out'.newPos = new[t]
             /\ \A u \in TokenIds \ {t} : new[u] = old[u]]_vars

C19_Witness ==
    /\ out.bcast = "tokenMovedFromServer"
    /\ out.color = "blue"
    /\ out.dice = 6
    /\ out.tokenId = 2
    /\ out.newPos = 39
    /\ rooms[out.room].gameState["blue"].tokens[2] = 39
    /\ rooms[out.room].gameState["blue"].tokens[0] = 40

\* C20: for every colour of every room the score is the number of that
\* colour's tokens at 57 and the length of its finished list, the finished
\* list holds exactly the indices of the tokens at 57, each once, and the
\* score is between 0 and 4.
C20_ScoreCountsFinished ==
    \A rc \in DOMAIN rooms, c \in Colors :
        LET g == rooms[rc].gameState[c]
            at57 == {t \in TokenIds : g.tokens[t] = 57}
        IN /\ g.score = Cardinality(at57)
           /\ g.score = Len(g.finished)
           /\ {g.finished[i] : i \in 1..Len(g.finished)} = at57
           /\ \A i, j \in 1..Len(g.finished) : g.finished[i] = g.finished[j] => i = j
           /\ g.score \in 0..4

C20_Witness ==
    /\ out.bcast = "tokenMovedFromServer"
    /\ out.color = "green"
    /\ out.newPos = 57
    /\ rooms[out.room].gameState["green"].score = 1
    /\ rooms[out.room].gameState["green"].finished = <<0>>
    /\ rooms[out.room].gameState["red"].score = 3

\* the tokens of `room` that stand on the board and are at -1 in `after`
SentHome(room, after) ==
    {ct \in Colors \X TokenIds :
        /\ room.gameState[ct[1]].tokens[ct[2]] >= 0
        /\ after.gameState[ct[1]].tokens[ct[2]] = TokenAtHome}

\* C21 as stated: for every cell p of 0..51 that is no star cell and every
\* colour A, at most one token of the colours other than A stands on p.
C21_OneOpponentPerCell ==
    \A rc \in DOMAIN rooms, p \in 0..51, a \in Colors :
        p \notin {0, 8, 13, 21, 26, 34, 39, 47} =>
            Cardinality(OthersAt(rooms[rc], a, p)) <= 1

\* C21 (amended): every accepted move resets at most one token to -1, and a
\* token it resets is the one the move result names.
C21_OneCapturePerMove ==
    [][AcceptedMove =>
          LET home == SentHome(rooms[out'.room], rooms'[out'.room])
          IN /\ Cardinality(home) <= 1
             /\ \A ct \in home : out'.killed = [color |-> ct[1], tokenIndex |-> ct[2]]]_vars

C21_Witness ==
    /\ out.bcast = "tokenMovedFromServer"
    /\ out.killed # NoKill
    /\ out.color = "red"
    /\ CountAt(rooms[out.room], "green", out.newPos) = 2
    /\ CountAt(rooms[out.room], "red", out.newPos) = 1
    /\ CountAt(rooms[out.room], "blue", out.newPos) = 0

\* C22 as stated: a connection is a player with colour c of room R exactly
\* when the session map maps it to (R, c); a connection that has disconnected
\* is in no player list and has no session entry.
C22_SessionsAgree ==
    /\ \A rc \in DOMAIN rooms : \A i \in 1..Len(rooms[rc].players) :
          LET p == rooms[rc].players[i]
          IN /\ p.socketId \in DOMAIN activePlayers
             /\ activePlayers[p.socketId] = [roomCode |-> rc, color |-> p.color]
    /\ \A s \in DOMAIN activePlayers :
          /\ activePlayers[s].roomCode \in DOMAIN rooms
          /\ \E i \in 1..Len(rooms[activePlayers[s].roomCode].players) :
                rooms[activePlayers[s].roomCode].players[i] =
                    [socketId |-> s, color |-> activePlayers[s].color]
    /\ \A s \in Sockets \ connected :
          /\ s \notin DOMAIN activePlayers
          /\ \A rc \in DOMAIN rooms : Seats(rooms[rc], s) = 0

\* connection s can be the sender of the rollDice or moveToken this step handles
SentBy(s) ==
    \/ /\ out'.ev = "rollDice"
       /\ \E d \in RollValues : RollDice(s, out'.room, d, out'.color)
    \/ /\ out'.ev = "moveToken"
       /\ MoveToken(s, out'.room, out'.color, out'.tokenId, out'.dice)

\* C23 as stated: a rollDice or moveToken changes a room only when the sending
\* connection is a player of that room and holds the colour named in the
\* event.
C23_OnlyOwnerActs ==
    [][(out'.ev \in {"rollDice", "moveToken"} /\ rooms' # rooms) =>
          \A s \in connected :
              SentBy(s) =>
                  \E i \in 1..Len(rooms[out'.room].players) :
                      rooms[out'.room].players[i] = [socketId |-> s, color |-> out'.color]]_vars

\* C24 as stated (the part that needs no history): an accepted moveToken
\* follows a roll that recorded its dice value, so the dice value it uses is
\* the room's last dice value, and the event just before it on the room was
\* not an accepted move of the same colour using that same roll.
C24_MoveUsesRecordedRoll ==
    [][AcceptedMove =>
          /\ rooms[out'.room].lastDiceRoll = out'.dice
          /\ ~(out.bcast = "tokenMovedFromServer" /\ out.room = out'.room)]_vars

\* C25 as stated: while a room is not started no rollDice or moveToken is
\* accepted: its sixteen tokens are at -1, its scores and kills are 0, no
\* six-counter is above 0 and its last dice value is 0.
C25_NothingBeforeStart ==
    /\ \A rc \in DOMAIN rooms :
          ~rooms[rc].gameStarted =>
              /\ \A c \in Colors :
                    /\ \A t \in TokenIds : rooms[rc].gameState[c].tokens[t] = -1
                    /\ rooms[rc].gameState[c].score = 0
                    /\ rooms[rc].gameState[c].kills = 0
                    /\ rooms[rc].consecutiveSixes[c] <= 0
              /\ rooms[rc].lastDiceRoll = 0
    /\ (out.bcast \in {"diceRolledFromServer", "turnSkipped", "tokenMovedFromServer"}
        /\ out.room \in DOMAIN rooms) => rooms[out.room].gameStarted

\* C26 as stated: every gameStarted broadcast reports red, the colour in turn
\* when the started flag was set, as first-turn colour and is sent for a room
\* that is in the registry.
C26_GameStartedReportsRed ==
    out.bcast = "gameStarted" =>
        /\ out.color = "red"
        /\ out.room \in DOMAIN rooms

====
